---- MODULE Spec2Model ----
(***************************************************************************)
(* The example code of docs/guides/developer/pythia_policies.ipynb:        *)
(* make_parameters, get_next_index, MyPolicy, MyDesigner, DesignerPolicy,  *)
(* CounterDesigner, CounterSerialDesigner and CounterPartialDesigner.      *)
(***************************************************************************)
EXTENDS Integers, Sequences, FiniteSets, TLC

VARIABLES
    vzExportsParamterType, \* does the name vz.ParamterType (line 143) resolve
    study_config,          \* the study's configuration (its search space)
    made,                  \* index -> what make_parameters(search_space, index) did
    trials,                \* the datastore behind the PolicySupporter
    policies,              \* the Policy instances that exist
    observed,              \* per policy slot: its latest suggest() call on the
                           \* store as it is now
    indexObs,              \* the latest get_next_index() call
    designers,             \* the MyDesigner instances that exist
    updCompleted,          \* every `completed` handed to update(), in call order
    updActive,             \* the `all_active` of the latest update()
    dsResult,              \* per designer: its latest suggest() call
    cdVariant,             \* which CounterDesigner subclass the study uses
    cd,                    \* the CounterDesigner instance
    cdMetadata,            \* the metadata the designer was last dumped to
    cdDumped,              \* the _counter the dumped designer had
    cdExpected,            \* initial counter plus the lengths of all lists returned
    cdFresh,               \* "init" / "recovered" / "" : what the instance last did
    cdRaised               \* the exception of the latest CounterDesigner.suggest

paramVars    == << made >>
storeVars    == << trials >>
policyVars   == << policies, observed >>
indexVars    == << indexObs >>
designerVars == << designers, updCompleted, updActive, dsResult >>
counterVars  == << cdVariant, cd, cdMetadata, cdDumped, cdExpected, cdFresh, cdRaised >>
vars == << vzExportsParamterType, study_config, made, trials, policies, observed,
           indexObs, designers, updCompleted, updActive, dsResult, cdVariant, cd,
           cdMetadata, cdDumped, cdExpected, cdFresh, cdRaised >>

----------------------------------------------------------------------------
(* Bounds *)
MaxParams  == 2     \* parameters of a search space
MaxValues  == 3     \* feasible values of a CATEGORICAL parameter
MaxIndex   == 6     \* indices handed to make_parameters
MaxTrials  == 3     \* trials in the datastore (ids 1..MaxTrials)
MaxCount   == 2     \* request.count / suggest(count)
MaxCounter == 11    \* magnitude of a CounterDesigner counter

----------------------------------------------------------------------------
(* Python values *)
\* None, as a record so that it compares with objects
None == [none |-> TRUE]
NoException == ""

Return(v) == [raised |-> NoException, value |-> v]
Raise(e)  == [raised |-> e, value |-> << >>]
SameOutcome(a, b) ==
    /\ a.raised = b.raised
    /\ a.raised = NoException => a.value = b.value

PyInt(n) == [type |-> "int", value |-> n]
PyStr(s) == [type |-> "str", value |-> s]

Digits == << "0", "1", "2", "3", "4", "5", "6", "7", "8", "9" >>

\* str(n) for a non-negative int: its decimal digits, most significant first
RECURSIVE NatToStr(_)
NatToStr(n) ==
    IF n < 10 THEN << Digits[n + 1] >>
    ELSE Append(NatToStr(n \div 10), Digits[(n % 10) + 1])

\* str(x): the decimal text of an int, a str unchanged
str(x) ==
    IF x.type = "str" THEN x
    ELSE IF x.value < 0 THEN PyStr(<< "-" >> \o NatToStr(0 - x.value))
    ELSE PyStr(NatToStr(x.value))

DigitValue(ch) == CHOOSE d \in 0..9 : Digits[d + 1] = ch

RECURSIVE ParseNat(_, _)
ParseNat(s, acc) ==
    IF s = << >> THEN acc ELSE ParseNat(Tail(s), 10 * acc + DigitValue(Head(s)))

\* int(x): the int a decimal text denotes, an int unchanged
int(x) ==
    IF x.type = "int" THEN x
    ELSE IF Head(x.value) = "-" THEN PyInt(0 - ParseNat(Tail(x.value), 0))
    ELSE PyInt(ParseNat(x.value, 0))

\* max(ids) of a non-empty list, left to right
RECURSIVE max(_)
max(ids) ==
    IF Len(ids) = 1 THEN ids[1]
    ELSE LET m == max(Tail(ids)) IN IF ids[1] >= m THEN ids[1] ELSE m

\* [f(x) for x in xs]
RECURSIVE Ids(_)
Ids(ts) == IF ts = << >> THEN << >> ELSE << Head(ts).id >> \o Ids(Tail(ts))

----------------------------------------------------------------------------
(* vz.SearchSpace, vz.ParameterConfig, vz.ParameterDict *)
Letters == << "a", "b", "c", "d", "e", "f" >>
ParameterNames == { "p", "q", "r" }
ParameterTypes == { "CATEGORICAL", "DOUBLE" }

\* a CATEGORICAL parameter has 1..MaxValues distinct feasible values; the
\* feasible values of another type are never read
ParameterConfigs ==
    { [name |-> n, type |-> "CATEGORICAL", feasible_values |-> SubSeq(Letters, 1, k)] :
        n \in ParameterNames, k \in 1..MaxValues }
    \cup { [name |-> n, type |-> "DOUBLE", feasible_values |-> << >>] :
        n \in ParameterNames }

\* parameter names are unique within a search space
SearchSpaces ==
    { [parameters |-> ps] :
        ps \in { s \in UNION { [1..k -> ParameterConfigs] : k \in 0..MaxParams } :
                   \A i, j \in DOMAIN s : i # j => s[i].name # s[j].name } }

StudyConfigs == { [search_space |-> s] : s \in SearchSpaces }

EmptyDict == << >>

\* lines 142-148: the body of the for loop, from parameter k on
RECURSIVE make_parameters_loop(_, _, _, _)
make_parameters_loop(parameters, k, index, parameter_dict) ==
    IF k > Len(parameters) THEN Return(parameter_dict)
    ELSE LET parameter_config == parameters[k]
             feasible_values == parameter_config.feasible_values
         IN  IF ~vzExportsParamterType THEN Raise("AttributeError")
             ELSE IF parameter_config.type # "CATEGORICAL" THEN Raise("ValueError")
             ELSE IF Len(feasible_values) = 0 THEN Raise("ZeroDivisionError")
             ELSE make_parameters_loop(parameters, k + 1, index,
                    (parameter_config.name :>
                        [value |-> feasible_values[(index % Len(feasible_values)) + 1]])
                    @@ parameter_dict)

make_parameters(search_space, index) ==
    make_parameters_loop(search_space.parameters, 1, index, EmptyDict)

NotCalled == [not_called |-> TRUE]

\* make_parameters(study_config.search_space, index) is called
MakeParameters(index) ==
    /\ made' = [made EXCEPT ![index] = make_parameters(study_config.search_space, index)]
    /\ UNCHANGED << vzExportsParamterType, study_config, storeVars, policyVars,
                    indexVars, designerVars, counterVars >>

----------------------------------------------------------------------------
(* CounterDesigner, CounterSerialDesigner, CounterPartialDesigner *)
Variants == { "CounterSerialDesigner", "CounterPartialDesigner" }
CounterRange == (0 - MaxCounter)..MaxCounter

\* vz.Metadata(): string keys to string values
EmptyMetadata == << >>

\* CounterDesigner.__init__ (line 331)
CounterDesigner_init == [_counter |-> PyInt(0)]

\* CounterSerialDesigner.__init__ (lines 367-368)
CounterSerialDesigner_init(counter) == [_counter |-> counter]

\* CounterSerialDesigner.recover (lines 371-372)
CounterSerialDesigner_recover(metadata) == CounterSerialDesigner_init(metadata["counter"])

\* CounterSerialDesigner.dump (lines 374-377)
CounterSerialDesigner_dump(self) == ("counter" :> str(self._counter)) @@ EmptyMetadata

\* load() that forgets the int() conversion
CounterPartialDesigner_load_raw(self, metadata) ==
    [self EXCEPT !._counter = metadata["counter"]]

\* CounterPartialDesigner.load (lines 382-383)
CounterPartialDesigner_load(self, metadata) ==
    [self EXCEPT !._counter = int(metadata["counter"])]

\* CounterPartialDesigner.dump (lines 385-388)
CounterPartialDesigner_dump(self) == ("counter" :> str(self._counter)) @@ EmptyMetadata

\* CounterDesigner.suggest (lines 333-336): self._counter += len(suggestions);
\* a str counter cannot be added to an int
CounterDesigner_suggest(self, suggestions) ==
    IF self._counter.type = "int"
    THEN [self |-> [self EXCEPT !._counter = PyInt(@.value + Len(suggestions))],
          out |-> Return(suggestions)]
    ELSE [self |-> self, out |-> Raise("TypeError")]

dump(self) ==
    IF cdVariant = "CounterSerialDesigner" THEN CounterSerialDesigner_dump(self)
    ELSE CounterPartialDesigner_dump(self)

\* the study starts a CounterSerialDesigner with counter c
NewCounterSerialDesigner(c) ==
    /\ cdVariant = "CounterSerialDesigner"
    /\ cd = None /\ cdMetadata = None
    /\ cd' = CounterSerialDesigner_init(PyInt(c))
    /\ cdExpected' = c
    /\ cdFresh' = "init"
    /\ UNCHANGED << cdVariant, cdMetadata, cdDumped, cdRaised >>
    /\ UNCHANGED << vzExportsParamterType, study_config, paramVars, storeVars,
                    policyVars, indexVars, designerVars >>

\* the study starts a CounterPartialDesigner
NewCounterPartialDesigner ==
    /\ cdVariant = "CounterPartialDesigner"
    /\ cd = None /\ cdMetadata = None
    /\ cd' = CounterDesigner_init
    /\ cdExpected' = 0
    /\ cdFresh' = "init"
    /\ UNCHANGED << cdVariant, cdMetadata, cdDumped, cdRaised >>
    /\ UNCHANGED << vzExportsParamterType, study_config, paramVars, storeVars,
                    policyVars, indexVars, designerVars >>

\* suggest() computes n suggestions and counts them
CounterSuggest(n) ==
    /\ cd # None
    /\ cd._counter.type = "int" => cd._counter.value + n <= MaxCounter
    /\ LET r == CounterDesigner_suggest(cd, [i \in 1..n |-> "TrialSuggestion"])
       IN  /\ cd' = r.self
           /\ cdRaised' = r.out.raised
           /\ cdExpected' = IF r.out.raised = NoException
                            THEN cdExpected + Len(r.out.value) ELSE cdExpected
    /\ cdFresh' = ""
    /\ UNCHANGED << cdVariant, cdMetadata, cdDumped >>
    /\ UNCHANGED << vzExportsParamterType, study_config, paramVars, storeVars,
                    policyVars, indexVars, designerVars >>

\* the designer is dumped to the study's metadata and deleted (preemption)
CounterPreempt ==
    /\ cd # None
    /\ cdMetadata' = dump(cd)
    /\ cdDumped' = cd._counter
    /\ cd' = None
    /\ cdFresh' = ""
    /\ UNCHANGED << cdVariant, cdExpected, cdRaised >>
    /\ UNCHANGED << vzExportsParamterType, study_config, paramVars, storeVars,
                    policyVars, indexVars, designerVars >>

\* state recovery: recover(metadata), or __init__ followed by load(metadata)
CounterRecover ==
    /\ cd = None /\ cdMetadata # None
    /\ cd' = IF cdVariant = "CounterSerialDesigner"
             THEN CounterSerialDesigner_recover(cdMetadata)
             ELSE CounterPartialDesigner_load(CounterDesigner_init, cdMetadata)
    /\ cdFresh' = "recovered"
    /\ UNCHANGED << cdVariant, cdMetadata, cdDumped, cdExpected, cdRaised >>
    /\ UNCHANGED << vzExportsParamterType, study_config, paramVars, storeVars,
                    policyVars, indexVars, designerVars >>

----------------------------------------------------------------------------
(* Initial values of the parts a specification leaves alone *)
DefaultStudyConfig == [search_space |-> [parameters |-> << >>]]
ParamIdle   == made = [i \in 0..MaxIndex |-> NotCalled]
CounterIdle ==
    /\ cdVariant = "CounterSerialDesigner" /\ cd = None /\ cdMetadata = None
    /\ cdDumped = None /\ cdExpected = 0 /\ cdFresh = "" /\ cdRaised = NoException

\* make_parameters on every search space and index
InitParams ==
    /\ vzExportsParamterType \in BOOLEAN
    /\ study_config \in StudyConfigs
    /\ ParamIdle
    /\ trials = << >> /\ policies = << >> /\ observed = << >> /\ indexObs = None
    /\ designers = << >> /\ updCompleted = << >> /\ updActive = << >> /\ dsResult = << >>
    /\ CounterIdle
NextParams == \E index \in 0..MaxIndex : MakeParameters(index)
SpecParams == InitParams /\ [][NextParams]_vars

\* the life of a CounterDesigner: construction, suggestions, preemption
\* (dump and delete) and recovery from the dumped metadata
InitCounter ==
    /\ vzExportsParamterType = TRUE
    /\ study_config = DefaultStudyConfig
    /\ ParamIdle
    /\ trials = << >> /\ policies = << >> /\ observed = << >> /\ indexObs = None
    /\ designers = << >> /\ updCompleted = << >> /\ updActive = << >> /\ dsResult = << >>
    /\ cdVariant \in Variants
    /\ cd = None /\ cdFresh = "" /\ cdRaised = NoException
    /\ cdMetadata = None /\ cdDumped = None /\ cdExpected = 0
NextCounter ==
    \/ \E c \in CounterRange : NewCounterSerialDesigner(c)
    \/ NewCounterPartialDesigner
    \/ \E n \in 0..MaxCount : CounterSuggest(n)
    \/ CounterPreempt
    \/ CounterRecover
SpecCounter == InitCounter /\ [][NextCounter]_vars

\* C6: recover(CounterSerialDesigner(c).dump()) has the int c as its _counter.
C6_SerialRoundTrip ==
    (cdVariant = "CounterSerialDesigner" /\ cd # None /\ cdFresh = "recovered"
        /\ cdDumped # None /\ cdDumped.type = "int")
    => (cd._counter.type = "int" /\ cd._counter.value = cdDumped.value)

\* C7: a CounterPartialDesigner with int counter c is dumped to m; a new one
\* after load(m) has the int c as its _counter and dumps to m again.
C7_PartialRoundTrip ==
    (cdVariant = "CounterPartialDesigner" /\ cd # None /\ cdFresh = "recovered"
        /\ cdDumped # None /\ cdDumped.type = "int")
    => /\ cd._counter.type = "int" /\ cd._counter.value = cdDumped.value
       /\ CounterPartialDesigner_dump(cd) = cdMetadata

\* a partial designer that had counted into two digits is back after a
\* preemption
C7_Witness ==
    /\ cdVariant = "CounterPartialDesigner" /\ cd # None /\ cdFresh = "recovered"
    /\ cdDumped # None /\ cdDumped.type = "int" /\ cdDumped.value >= 10
    /\ cd._counter.type = "int" /\ cd._counter.value = cdDumped.value

\* C8: _counter is 0 after CounterDesigner.__init__ and is always the int
\* that counts every suggestion returned, across dump and recovery too.
C8_CounterCountsSuggestions ==
    cd # None =>
        /\ cd._counter.type = "int" /\ cd._counter.value = cdExpected
        /\ (cdVariant = "CounterPartialDesigner" /\ cdFresh = "init")
              => cd._counter.value = 0

----------------------------------------------------------------------------
(* vz.Trial and the datastore behind pythia.PolicySupporter *)
TrialIds == 1..MaxTrials
TrialStatuses == { "REQUESTED", "ACTIVE", "COMPLETED" }
Trial(id, status) == [id |-> id, status |-> status]

\* request.count and suggest(count): Optional[int]
Counts == { PyInt(n) : n \in 0..MaxCount }
OptionalCounts == Counts \cup { None }

\* the search spaces the policies and designers are run on: no parameter, or
\* one parameter of each kind
StudySearchSpaces ==
    { s \in SearchSpaces : \A i \in DOMAIN s.parameters : s.parameters[i].name = "p" }

----------------------------------------------------------------------------
(* MyDesigner *)
CompletedTrials(ts) == [trials |-> ts]
ActiveTrials(ts) == [trials |-> ts]

\* the trials with the ids of `ids`, by increasing id
RECURSIVE TrialsById(_, _)
TrialsById(ids, status) ==
    IF ids = {} THEN << >>
    ELSE LET least == CHOOSE i \in ids : \A j \in ids : i <= j
         IN  << Trial(least, status) >> \o TrialsById(ids \ { least }, status)

\* what update() can be handed: newly completed trials (each trial completes
\* once; in any order) and the trials that are active then, by id
NewlyCompleted ==
    LET done == { updCompleted[i].id : i \in DOMAIN updCompleted }
        left == TrialIds \ done
    IN  { ts \in UNION { [1..k -> { Trial(id, "COMPLETED") : id \in left }] :
                           k \in 0..Cardinality(left) } :
            \A i, j \in DOMAIN ts : i # j => ts[i].id # ts[j].id }
ActiveAfter(completed) ==
    LET done == { updCompleted[i].id : i \in DOMAIN updCompleted }
                   \cup { completed[i].id : i \in DOMAIN completed }
    IN  { TrialsById(ids, "ACTIVE") : ids \in SUBSET (TrialIds \ done) }

\* MyDesigner.__init__ (lines 236-239)
MyDesigner_init(config) ==
    [_study_config |-> config, _completed_trials |-> << >>, _active_trials |-> << >>]

\* update() that assigns the completed trials instead of extending the list
MyDesigner_update_assign(self, completed, all_active) ==
    [self EXCEPT !._completed_trials = completed.trials,
                 !._active_trials = all_active.trials]

\* MyDesigner.update (lines 241-247)
MyDesigner_update(self, completed, all_active) ==
    [self EXCEPT !._completed_trials = @ \o completed.trials,
                 !._active_trials = all_active.trials]

\* lines 256-259: [make_parameters(search_space, current_index + i) for i in
\* range(count)], from i on; the first exception ends the comprehension
RECURSIVE MyDesigner_suggest_list(_, _, _, _)
MyDesigner_suggest_list(search_space, current_index, i, count) ==
    IF i >= count THEN Return(<< >>)
    ELSE LET parameters == make_parameters(search_space, current_index + i)
         IN  IF parameters.raised # NoException THEN parameters
             ELSE LET rest == MyDesigner_suggest_list(search_space, current_index,
                                                      i + 1, count)
                  IN  IF rest.raised # NoException THEN rest
                      ELSE Return(<< parameters.value >> \o rest.value)

\* suggest() that moves the active trials into the completed list
MyDesigner_suggest_extending(self, count) ==
    [self |-> [self EXCEPT !._completed_trials = @ \o self._active_trials],
     out |-> Return(<< >>)]

\* MyDesigner.suggest (lines 249-259): the designer afterwards and the outcome
MyDesigner_suggest(self, count) ==
    [self |-> self,
     out |->
        IF count = None THEN Return(<< >>)
        ELSE LET trial_ids == Ids(self._completed_trials \o self._active_trials)
             IN  IF trial_ids = << >> THEN Raise("ValueError")
                 ELSE MyDesigner_suggest_list(self._study_config.search_space,
                                              max(trial_ids), 0, count.value)]

DesignerSlots == { "original", "recovered" }

\* update(completed, all_active) on the designer
DesignerUpdate(completed, all_active) ==
    /\ designers["original"] # None
    /\ designers' = [designers EXCEPT
            !["original"] = MyDesigner_update(@, CompletedTrials(completed),
                                              ActiveTrials(all_active)),
            !["recovered"] = None]
    /\ updCompleted' = updCompleted \o completed
    /\ updActive' = all_active
    /\ dsResult' = [d \in DesignerSlots |-> None]
    /\ UNCHANGED << vzExportsParamterType, study_config, paramVars, storeVars,
                    policyVars, indexVars, counterVars >>

\* suggest(count) on a designer
DesignerSuggest(d, count) ==
    /\ designers[d] # None
    /\ LET r == MyDesigner_suggest(designers[d], count)
       IN  /\ designers' = [designers EXCEPT ![d] = r.self]
           /\ dsResult' = [dsResult EXCEPT ![d] = [count |-> count, out |-> r.out]]
    /\ UNCHANGED << updCompleted, updActive >>
    /\ UNCHANGED << vzExportsParamterType, study_config, paramVars, storeVars,
                    policyVars, indexVars, counterVars >>

\* the designer is deleted or preempted
DesignerPreempt ==
    /\ designers["original"] # None
    /\ designers' = [designers EXCEPT !["original"] = None]
    /\ UNCHANGED << updCompleted, updActive, dsResult >>
    /\ UNCHANGED << vzExportsParamterType, study_config, paramVars, storeVars,
                    policyVars, indexVars, counterVars >>

\* lines 268-274: __init__, then a single update() with all completed trials,
\* as the datastore lists them (by id), and the active trials
DesignerRecover ==
    /\ designers["original"] = None /\ designers["recovered"] = None
    /\ designers' = [designers EXCEPT !["recovered"] =
            MyDesigner_update(MyDesigner_init(study_config),
                CompletedTrials(TrialsById({ updCompleted[i].id : i \in DOMAIN updCompleted },
                                           "COMPLETED")),
                ActiveTrials(updActive))]
    /\ UNCHANGED << updCompleted, updActive, dsResult >>
    /\ UNCHANGED << vzExportsParamterType, study_config, paramVars, storeVars,
                    policyVars, indexVars, counterVars >>

\* the life of a MyDesigner, from its construction on
InitDesigner ==
    /\ vzExportsParamterType \in BOOLEAN
    /\ study_config \in { [search_space |-> s] : s \in StudySearchSpaces }
    /\ ParamIdle
    /\ trials = << >> /\ policies = << >> /\ observed = << >> /\ indexObs = None
    /\ designers = [d \in DesignerSlots |->
                      IF d = "original" THEN MyDesigner_init(study_config) ELSE None]
    /\ updCompleted = << >> /\ updActive = << >>
    /\ dsResult = [d \in DesignerSlots |-> None]
    /\ CounterIdle
NextDesigner ==
    \/ \E completed \in NewlyCompleted :
          \E all_active \in ActiveAfter(completed) :
             DesignerUpdate(completed, all_active)
    \/ \E d \in DesignerSlots, count \in OptionalCounts : DesignerSuggest(d, count)
    \/ DesignerPreempt
    \/ DesignerRecover
SpecDesigner == InitDesigner /\ [][NextDesigner]_vars

\* C2: a designer recovered by __init__ and one update() with all completed
\* trials and the final active trials answers suggest(count) as the designer
\* that received them over several update() calls did.
C2_SingleUpdateRecovers ==
    (dsResult["original"] # None /\ dsResult["recovered"] # None
        /\ dsResult["original"].count = dsResult["recovered"].count)
    => SameOutcome(dsResult["original"].out, dsResult["recovered"].out)

\* the original got three completed trials out of id order, the recovered
\* designer got them by id, and both returned two suggestions
C2_Witness ==
    /\ dsResult["original"] # None /\ dsResult["recovered"] # None
    /\ dsResult["original"].count = dsResult["recovered"].count
    /\ dsResult["original"].out.raised = NoException
    /\ Len(dsResult["original"].out.value) = 2
    /\ Len(dsResult["recovered"].out.value) = 2
    /\ designers["recovered"] # None
    /\ Len(updCompleted) = 3 /\ updCompleted[1].id > updCompleted[3].id
    /\ designers["recovered"]._completed_trials # updCompleted

\* C10: _completed_trials is every `completed` received, in call order, and
\* _active_trials is the latest `all_active`; suggest() changes neither.
C10_AccumulateAndReplace ==
    designers["original"] # None =>
        /\ designers["original"]._completed_trials = updCompleted
        /\ designers["original"]._active_trials = updActive

\* after updates that left two completed trials and one active trial, and a
\* suggest() that returned suggestions
C10_Witness ==
    /\ designers["original"] # None
    /\ Len(updCompleted) = 2 /\ Len(updActive) = 1
    /\ updCompleted[1].id > updCompleted[2].id
    /\ designers["original"]._completed_trials = updCompleted
    /\ dsResult["original"] # None
    /\ dsResult["original"].out.raised = NoException
    /\ dsResult["original"].out.value # << >>

----------------------------------------------------------------------------
(* pythia.PolicySupporter, get_next_index, MyPolicy, DesignerPolicy *)

\* PolicySupporter.GetTrials(status_matches=status): the trials of the
\* datastore that have that status, in id order
GetTrials(policy_supporter, status) ==
    SelectSeq(trials, LAMBDA t : t.status = status)

\* get_next_index that forgets the active trials
get_next_index_completed_only(policy_supporter) ==
    LET completed == GetTrials(policy_supporter, "COMPLETED")
        trial_ids == Ids(completed)
    IN  IF trial_ids # << >> THEN max(trial_ids) ELSE 0

\* get_next_index (lines 169-177)
get_next_index(policy_supporter) ==
    LET completed == GetTrials(policy_supporter, "COMPLETED")
        active == GetTrials(policy_supporter, "ACTIVE")
        trial_ids == Ids(completed \o active)
    IN  IF trial_ids # << >> THEN max(trial_ids) ELSE 0

TrialSuggestion(parameters) == [parameters |-> parameters]
MetadataDelta == << >>
SuggestDecision(suggestions) == [suggestions |-> suggestions, metadata |-> MetadataDelta]
SuggestRequest(count) == [count |-> count, study_config |-> study_config]

\* MyPolicy.__init__ (lines 199-200)
MyPolicy_init(policy_supporter) ==
    [class |-> "MyPolicy", _policy_supporter |-> policy_supporter]

\* lines 205-208: the for loop, from iteration k on
RECURSIVE MyPolicy_suggest_loop(_, _, _, _)
MyPolicy_suggest_loop(self, request, k, suggest_decision_list) ==
    IF k >= request.count.value THEN Return(SuggestDecision(suggest_decision_list))
    ELSE LET index == get_next_index(self._policy_supporter)
             parameters == make_parameters(request.study_config.search_space, index)
         IN  IF parameters.raised # NoException THEN parameters
             ELSE MyPolicy_suggest_loop(self, request, k + 1,
                    Append(suggest_decision_list, TrialSuggestion(parameters.value)))

\* a policy that keeps the index of its first call in the instance
MyPolicy_suggest_caching(self, request) ==
    LET index == IF "_index" \in DOMAIN self THEN self._index
                 ELSE get_next_index(self._policy_supporter)
        parameters == make_parameters(request.study_config.search_space, index)
    IN  [self |-> [class |-> "MyPolicy", _policy_supporter |-> self._policy_supporter,
                   _index |-> index],
         out |-> IF request.count.value = 0 THEN Return(SuggestDecision(<< >>))
                 ELSE IF parameters.raised # NoException THEN parameters
                 ELSE Return(SuggestDecision(
                        [i \in 1..request.count.value |-> TrialSuggestion(parameters.value)]))]

\* MyPolicy.suggest (lines 202-211): the policy afterwards and the outcome
MyPolicy_suggest(self, request) ==
    [self |-> self, out |-> MyPolicy_suggest_loop(self, request, 0, << >>)]

\* DesignerPolicy.__init__ (lines 282-284)
DesignerPolicy_init(supporter, designer_factory) ==
    [class |-> "DesignerPolicy", _supporter |-> supporter,
     _designer_factory |-> designer_factory]

\* DesignerPolicy.suggest (lines 272-274, 286-290) with the factory of line 303
DesignerPolicy_suggest(self, request) ==
    LET completed == GetTrials(self._supporter, "COMPLETED")
        active == GetTrials(self._supporter, "ACTIVE")
        created == MyDesigner_init(request.study_config)
        designer == MyDesigner_update(created, CompletedTrials(completed),
                                      ActiveTrials(active))
        suggestions == MyDesigner_suggest(designer, request.count).out
    IN  [self |-> self,
         out |-> IF suggestions.raised # NoException THEN suggestions
                 ELSE Return(SuggestDecision(suggestions.value))]

PolicySlots == { "p1", "p2" }
Supporter == "datastore"

\* a trial is added to the study
AddTrial(status) ==
    /\ Len(trials) < MaxTrials
    /\ trials' = Append(trials, Trial(Len(trials) + 1, status))
    /\ observed' = [p \in PolicySlots |-> None]
    /\ indexObs' = None
    /\ UNCHANGED << policies >>
    /\ UNCHANGED << vzExportsParamterType, study_config, paramVars, designerVars,
                    counterVars >>

\* a requested trial becomes active, an active trial completes
AdvanceTrial(id) ==
    /\ id \in DOMAIN trials
    /\ trials[id].status # "COMPLETED"
    /\ trials' = [trials EXCEPT ![id].status =
                    IF @ = "REQUESTED" THEN "ACTIVE" ELSE "COMPLETED"]
    /\ observed' = [p \in PolicySlots |-> None]
    /\ indexObs' = None
    /\ UNCHANGED << policies >>
    /\ UNCHANGED << vzExportsParamterType, study_config, paramVars, designerVars,
                    counterVars >>

\* MyPolicy(policy_supporter)
NewMyPolicy(p) ==
    /\ policies[p] = None
    /\ policies' = [policies EXCEPT ![p] = MyPolicy_init(Supporter)]
    /\ UNCHANGED << trials, observed, indexObs >>
    /\ UNCHANGED << vzExportsParamterType, study_config, paramVars, designerVars,
                    counterVars >>

\* DesignerPolicy(supporter, designer_factory) (lines 303-305)
NewDesignerPolicy(p) ==
    /\ policies[p] = None
    /\ policies' = [policies EXCEPT ![p] = DesignerPolicy_init(Supporter, "MyDesigner")]
    /\ UNCHANGED << trials, observed, indexObs >>
    /\ UNCHANGED << vzExportsParamterType, study_config, paramVars, designerVars,
                    counterVars >>

\* the policy instance is deleted
DeletePolicy(p) ==
    /\ policies[p] # None
    /\ policies' = [policies EXCEPT ![p] = None]
    /\ UNCHANGED << trials, observed, indexObs >>
    /\ UNCHANGED << vzExportsParamterType, study_config, paramVars, designerVars,
                    counterVars >>

\* policy.suggest(request)
PolicySuggest(p, count) ==
    /\ policies[p] # None
    /\ LET request == SuggestRequest(count)
           r == IF policies[p].class = "MyPolicy"
                THEN MyPolicy_suggest(policies[p], request)
                ELSE DesignerPolicy_suggest(policies[p], request)
       IN  /\ policies' = [policies EXCEPT ![p] = r.self]
           /\ observed' = [observed EXCEPT ![p] =
                  [class |-> policies[p].class, request |-> request, out |-> r.out]]
    /\ UNCHANGED << trials, indexObs >>
    /\ UNCHANGED << vzExportsParamterType, study_config, paramVars, designerVars,
                    counterVars >>

\* get_next_index(policy_supporter) is called
GetNextIndex ==
    /\ indexObs' = [index |-> get_next_index(Supporter)]
    /\ UNCHANGED << trials, policies, observed >>
    /\ UNCHANGED << vzExportsParamterType, study_config, paramVars, designerVars,
                    counterVars >>

DesignerIdle ==
    /\ designers = << >> /\ updCompleted = << >> /\ updActive = << >>
    /\ dsResult = << >>

\* policies serving a study whose trials are added and advanced
InitPolicy ==
    /\ vzExportsParamterType \in BOOLEAN
    /\ study_config \in { [search_space |-> s] : s \in StudySearchSpaces }
    /\ ParamIdle
    /\ trials = << >>
    /\ policies = [p \in PolicySlots |-> None]
    /\ observed = [p \in PolicySlots |-> None]
    /\ indexObs = None
    /\ DesignerIdle
    /\ CounterIdle
NextPolicy ==
    \/ \E status \in TrialStatuses : AddTrial(status)
    \/ \E id \in TrialIds : AdvanceTrial(id)
    \/ \E p \in PolicySlots : NewMyPolicy(p)
    \/ \E p \in PolicySlots : DeletePolicy(p)
    \/ \E p \in PolicySlots, count \in Counts : PolicySuggest(p, count)
SpecPolicy == InitPolicy /\ [][NextPolicy]_vars

\* the same study served by MyPolicy and by DesignerPolicy instances
NextWrap ==
    \/ \E status \in TrialStatuses : AddTrial(status)
    \/ \E id \in TrialIds : AdvanceTrial(id)
    \/ \E p \in PolicySlots : NewMyPolicy(p)
    \/ \E p \in PolicySlots : NewDesignerPolicy(p)
    \/ \E p \in PolicySlots : DeletePolicy(p)
    \/ \E p \in PolicySlots, count \in Counts : PolicySuggest(p, count)
SpecWrap == InitPolicy /\ [][NextWrap]_vars

\* get_next_index on a study whose trials are added and advanced
NextIndex ==
    \/ \E status \in TrialStatuses : AddTrial(status)
    \/ \E id \in TrialIds : AdvanceTrial(id)
    \/ GetNextIndex
SpecIndex == InitPolicy /\ [][NextIndex]_vars

\* the parameter assignments of a decision's suggestions
Assignments(decision) ==
    [i \in DOMAIN decision.suggestions |->
        IF "parameters" \in DOMAIN decision.suggestions[i]
        THEN decision.suggestions[i].parameters
        ELSE decision.suggestions[i]]

\* C1: on the same store and request, MyPolicy and DesignerPolicy over
\* MyDesigner return the same sequence of parameter assignments.
C1_DesignerPolicySameAsMyPolicy ==
    \A p, q \in PolicySlots :
        (observed[p] # None /\ observed[q] # None
            /\ observed[p].class = "MyPolicy" /\ observed[q].class = "DesignerPolicy"
            /\ observed[p].request = observed[q].request)
        => /\ observed[p].out.raised = observed[q].out.raised
           /\ observed[p].out.raised = NoException
                => Assignments(observed[p].out.value) = Assignments(observed[q].out.value)

\* C3: two MyPolicy instances given the same store contents and the same
\* request return the same decision, whatever either served before.
C3_MyPolicyStateless ==
    \A p, q \in PolicySlots :
        (observed[p] # None /\ observed[q] # None
            /\ observed[p].class = "MyPolicy" /\ observed[q].class = "MyPolicy"
            /\ observed[p].request = observed[q].request)
        => SameOutcome(observed[p].out, observed[q].out)

\* the ids of the trials that are COMPLETED or ACTIVE
LiveIds == { t.id : t \in { trials[i] : i \in { j \in DOMAIN trials :
                trials[j].status \in { "COMPLETED", "ACTIVE" } } } }

\* C9: get_next_index returns the largest id among the COMPLETED and ACTIVE
\* trials, 0 when there is none, and leaves the store as it was.
C9_NextIndexIsMaxLiveId ==
    /\ [](indexObs # None =>
            /\ LiveIds = {} => indexObs.index = 0
            /\ LiveIds # {} => /\ indexObs.index \in LiveIds
                               /\ \A id \in LiveIds : id <= indexObs.index)
    /\ [][indexObs' # None => trials' = trials]_vars

\* the call answered 1 while a REQUESTED trial has a larger id
C9_Witness ==
    /\ indexObs # None /\ indexObs.index = 1
    /\ Len(trials) = 3 /\ trials[3].status = "REQUESTED" /\ trials[2].status = "REQUESTED"

\* two MyPolicy instances answered the same request for two suggestions on a
\* store with trials, and one of them has been deleted since
C3_Witness ==
    \E p, q \in PolicySlots :
        /\ p # q /\ observed[p] # None /\ observed[q] # None
        /\ observed[p].class = "MyPolicy" /\ observed[q].class = "MyPolicy"
        /\ observed[p].request = observed[q].request
        /\ observed[p].request.count.value = 2
        /\ observed[p].out.raised = NoException
        /\ Len(observed[p].out.value.suggestions) = 2
        /\ DOMAIN observed[p].out.value.suggestions[1].parameters # {}
        /\ policies[p] = None
        /\ Len(trials) >= 2

----------------------------------------------------------------------------
(* make_parameters *)
Parameters == study_config.search_space.parameters
AllCategorical == \A k \in DOMAIN Parameters : Parameters[k].type = "CATEGORICAL"
Called == { i \in 0..MaxIndex : made[i] # NotCalled }

\* C4: make_parameters raises ValueError when some parameter is not
\* CATEGORICAL and raises nothing when every parameter is CATEGORICAL.
C4_ValueErrorIffNotCategorical ==
    \A i \in Called :
        /\ ~AllCategorical => made[i].raised = "ValueError"
        /\ AllCategorical => made[i].raised = NoException

\* C5: every parameter with n feasible values gets the value at position
\* index mod n, so that i and i+n agree and n consecutive indices give every
\* feasible value once; the dict has exactly the search space's names.
C5_CyclesThroughFeasibleValues ==
    AllCategorical =>
        \A i \in Called :
            /\ made[i].raised = NoException
            /\ DOMAIN made[i].value = { Parameters[k].name : k \in DOMAIN Parameters }
            /\ \A k \in DOMAIN Parameters :
                 LET name == Parameters[k].name
                     feasible_values == Parameters[k].feasible_values
                     n == Len(feasible_values)
                 IN  /\ made[i].value[name].value = feasible_values[(i % n) + 1]
                     /\ (i + n) \in Called
                          => made[i + n].value[name] = made[i].value[name]
                     /\ (\A j \in i..(i + n - 1) : j \in Called)
                          => /\ { made[j].value[name].value : j \in i..(i + n - 1) }
                                  = { feasible_values[m] : m \in 1..n }
                             /\ \A j1, j2 \in i..(i + n - 1) :
                                  j1 # j2 =>
                                    made[j1].value[name] # made[j2].value[name]

====
